---- MODULE Spec2Model ----
(***************************************************************************)
(* Model of the markdown viewer (route-parameter variant) and of the root  *)
(* component of the Angular interview-prep application.                    *)
(*                                                                         *)
(*   src/src/app/markdown-viewer/markdown-viewer.component.ts  (19-43)     *)
(*   src/src/app/app.component.ts                              (28-48)     *)
(*                                                                         *)
(* The input-bound variant of the viewer (markdown-viewer.component.ts     *)
(* 55-68) has its own fields and its own specification, InputSpec.         *)
(*                                                                         *)
(* Strings are TLA+ strings; concatenation is \o, as '+' and template      *)
(* literals are in the source.                                             *)
(***************************************************************************)
EXTENDS Integers, Sequences, FiniteSets, Bags, TLC

\* ------------------------------------------------------------------ bounds
\* Loads of markdown documents that may be in flight at once.
MaxPending == 2
\* Longest topics.json array the HTTP layer answers with.
MaxTopics == 2
\* Loads of markdown documents started in one run.
MaxRequests == 4
\* Calls of openTopicsModal followed.
MaxOpens == 2

\* Template references the display layer may hand to openTopicsModal.
Templates == {"topicsTpl", "otherTpl"}

\* Route parameters (the :title segment) the router may deliver.
Titles == {"intro", "a", "ab"}

\* Entries topics.json may hold (interface Topic).
TopicPool ==
  { [id |-> 1, title |-> "intro", description |-> "d1", published |-> "2024-01-01", link |-> "intro"],
    [id |-> 2, title |-> "a", description |-> "d2", published |-> "2024-02-01", link |-> "a"] }

\* Arrays the GET of ./topics.json may deliver.
Responses == UNION { [1..n -> TopicPool] : n \in 0..MaxTopics }

\* ------------------------------------------------------------------- state
VARIABLES
  filePath,    \* MarkdownViewerComponent.filePath   signal<string>
  loading,     \* MarkdownViewerComponent.loading    signal<boolean>
  error,       \* MarkdownViewerComponent.error      signal<string>
  params,      \* the route's current :title parameter ("" before the first one)
  pending,     \* bag of fetch paths the markdown loader has in flight
  requests,    \* number of loads the markdown loader has started
  pathChanges, \* number of times the value of filePath has changed
  topics,      \* AppComponent.topics                signal<Topic[]>
  topicsGet,   \* the GET of ./topics.json: "none", "pending", "done", "failed"
  httpGets,    \* number of GETs of ./topics.json issued so far
  modal,       \* the calls of NgbModal.open made so far, [temp, options]
  inputFilePath, \* input variant: filePath  input.required<string> ("" = not bound yet)
  inputLoading,  \* input variant: loading   signal<boolean>
  inputError,    \* input variant: error     signal, holding a JavaScript value
  inputPending,  \* input variant: bag of paths the markdown loader has in flight
  last,        \* history: the event handled last, [op, arg]
  resolved     \* history: for each title, the paths ever stored for it

vars == <<filePath, loading, error, params, pending, requests, pathChanges, topics, topicsGet, httpGets, modal,
          inputFilePath, inputLoading, inputError, inputPending, last, resolved>>

viewerVars == <<filePath, loading, error, params, pending, requests, pathChanges>>
appVars == <<topics, topicsGet, httpGets, modal>>
inputVars == <<inputFilePath, inputLoading, inputError, inputPending>>

\* ---------------------------------------------------------------- helpers
ResolvePathAppend(title) == filePath \o title

\* './' + params['title']
ResolvePath(title) == "./" \o title

ErrorMessageNoSuffix(path) == "Can't find " \o path

\* `Can't find ${this.filePath()}.md`
ErrorMessage(path) == "Can't find " \o path \o ".md"

\* The path the markdown loader fetches for a stored path: the display layer
\* appends the '.md' suffix.
FetchPath(path) == path \o ".md"

\* The display layer binds the loader to filePath: a changed path starts a load.
Request(bag, path) == bag (+) SetToBag({path})

\* The loader delivers one callback per load.
Deliver(bag, path) == bag (-) SetToBag({path})

SetTopicsKeep(prev, data) == prev

\* this.topics.set(data)
SetTopics(prev, data) == data

ModalOptionsNotCentered ==
  [animation |-> TRUE, scrollable |-> TRUE, fullscreen |-> TRUE, centered |-> FALSE]

\* { animation: true, scrollable: true, fullscreen: true, centered: true }
ModalOptions ==
  [animation |-> TRUE, scrollable |-> TRUE, fullscreen |-> TRUE, centered |-> TRUE]

\* ------------------------------------------------------ JavaScript values
\* A value of type any, as far as onError looks at it: its type, its value,
\* and the type and value of its message property (undefined when it has none).
JsValue(type, val, msgType, msgVal) ==
  [type |-> type, val |-> val, msgType |-> msgType, msgVal |-> msgVal]

\* A string; strings have no message property.
JsString(s) == JsValue("string", s, "undefined", "")

JsUndefined == JsValue("undefined", "", "undefined", "")

\* error.message
Message(e) ==
  IF e.msgType = "string" THEN JsString(e.msgVal) ELSE JsUndefined

\* ToBoolean(v) for the values above.
Truthy(v) ==
  CASE v.type = "undefined" -> FALSE
    [] v.type = "string" -> v.val # ""
    [] OTHER -> TRUE

\* Values the markdown loader may hand to the (error) callback: strings, error
\* objects with a message, with an empty message, and without one.
ErrorValues ==
  { JsString("boom"),
    JsString(""),
    JsValue("object", "HttpErrorResponse", "string", "Not Found"),
    JsValue("object", "Error", "string", ""),
    JsValue("object", "Object", "undefined", "") }

\* Paths the parent may bind to the filePath input.
InputPaths == {"./intro.md", "./a.md", "./ab.md"}

StoredErrorAlwaysMessage(e) == Message(e)

\* error.message ? error.message : error
StoredError(e) == IF Truthy(Message(e)) THEN Message(e) ELSE e

\* -------------------------------------------------------------------- Init
InitNotLoading ==
  /\ filePath = ""
  /\ loading = FALSE
  /\ error = ""
  /\ params = ""
  /\ pending = EmptyBag
  /\ requests = 0
  /\ pathChanges = 0
  /\ topics = << >>
  /\ topicsGet = "none"
  /\ httpGets = 0
  /\ modal = << >>
  /\ inputFilePath = ""
  /\ inputLoading = TRUE
  /\ inputError = JsString("")
  /\ inputPending = EmptyBag
  /\ last = [op |-> "init", arg |-> ""]
  /\ resolved = [t \in Titles |-> {}]

\* The field initialisers of both components.
Init ==
  /\ filePath = ""
  /\ loading = TRUE
  /\ error = ""
  /\ params = ""
  /\ pending = EmptyBag
  /\ requests = 0
  /\ pathChanges = 0
  /\ topics = << >>
  /\ topicsGet = "none"
  /\ httpGets = 0
  /\ modal = << >>
  /\ inputFilePath = ""
  /\ inputLoading = TRUE
  /\ inputError = JsString("")
  /\ inputPending = EmptyBag
  /\ last = [op |-> "init", arg |-> ""]
  /\ resolved = [t \in Titles |-> {}]

\* ----------------------------------------------------------------- actions
ParamsNextClearsError(title) ==
  /\ title # params
  /\ BagCardinality(pending) < MaxPending
  /\ requests < MaxRequests
  /\ params' = title
  /\ filePath' = ResolvePath(title)
  /\ pathChanges' = IF filePath' # filePath THEN pathChanges + 1 ELSE pathChanges
  /\ pending' = IF filePath' # filePath
                  THEN Request(pending, FetchPath(filePath'))
                  ELSE pending
  /\ requests' = IF filePath' # filePath THEN requests + 1 ELSE requests
  /\ error' = ""
  /\ UNCHANGED loading
  /\ UNCHANGED appVars
  /\ last' = [op |-> "params", arg |-> title]
  /\ resolved' = [resolved EXCEPT ![title] = @ \cup {filePath'}]
  /\ UNCHANGED inputVars

ParamsNextReloading(title) ==
  /\ title # params
  /\ BagCardinality(pending) < MaxPending
  /\ requests < MaxRequests
  /\ params' = title
  /\ filePath' = ResolvePath(title)
  /\ pathChanges' = IF filePath' # filePath THEN pathChanges + 1 ELSE pathChanges
  /\ pending' = IF filePath' # filePath
                  THEN Request(pending, FetchPath(filePath'))
                  ELSE pending
  /\ requests' = IF filePath' # filePath THEN requests + 1 ELSE requests
  /\ loading' = TRUE
  /\ UNCHANGED error
  /\ UNCHANGED appVars
  /\ last' = [op |-> "params", arg |-> title]
  /\ resolved' = [resolved EXCEPT ![title] = @ \cup {filePath'}]
  /\ UNCHANGED inputVars

\* this.route.params.subscribe((params) => { this.filePath.set(...); scrollTo })
\* The router emits when the parameter changes.
ParamsNext(title) ==
  /\ title # params
  /\ BagCardinality(pending) < MaxPending
  /\ requests < MaxRequests
  /\ params' = title
  /\ filePath' = ResolvePath(title)
  /\ pathChanges' = IF filePath' # filePath THEN pathChanges + 1 ELSE pathChanges
  /\ pending' = IF filePath' # filePath
                  THEN Request(pending, FetchPath(filePath'))
                  ELSE pending
  /\ requests' = IF filePath' # filePath THEN requests + 1 ELSE requests
  /\ UNCHANGED <<loading, error>>
  /\ UNCHANGED appVars
  /\ last' = [op |-> "params", arg |-> title]
  /\ resolved' = [resolved EXCEPT ![title] = @ \cup {filePath'}]
  /\ UNCHANGED inputVars

onLoadIgnoreStale(r) ==
  /\ BagIn(r, pending)
  /\ pending' = Deliver(pending, r)
  /\ loading' = IF r = FetchPath(filePath) THEN FALSE ELSE loading
  /\ UNCHANGED <<filePath, error, params, requests, pathChanges>>
  /\ UNCHANGED appVars
  /\ last' = [op |-> "onLoad", arg |-> r]
  /\ UNCHANGED resolved
  /\ UNCHANGED inputVars

onLoadClearsError(r) ==
  /\ BagIn(r, pending)
  /\ pending' = Deliver(pending, r)
  /\ loading' = FALSE
  /\ error' = ""
  /\ UNCHANGED <<filePath, params, requests, pathChanges>>
  /\ UNCHANGED appVars
  /\ last' = [op |-> "onLoad", arg |-> r]
  /\ UNCHANGED resolved
  /\ UNCHANGED inputVars

\* onLoad(content): the loader reports success of the load of r.
onLoad(r) ==
  /\ BagIn(r, pending)
  /\ pending' = Deliver(pending, r)
  /\ loading' = FALSE
  /\ UNCHANGED <<filePath, error, params, requests, pathChanges>>
  /\ UNCHANGED appVars
  /\ last' = [op |-> "onLoad", arg |-> r]
  /\ UNCHANGED resolved
  /\ UNCHANGED inputVars

onErrorRetry(r) ==
  /\ BagIn(r, pending)
  /\ pending' = Request(Deliver(pending, r), FetchPath(filePath))
  /\ requests' = requests + 1
  /\ error' = ErrorMessage(filePath)
  /\ UNCHANGED <<filePath, loading, params, pathChanges>>
  /\ UNCHANGED appVars
  /\ last' = [op |-> "onError", arg |-> r]
  /\ UNCHANGED resolved
  /\ UNCHANGED inputVars

onErrorStopsLoading(r) ==
  /\ BagIn(r, pending)
  /\ pending' = Deliver(pending, r)
  /\ error' = ErrorMessage(filePath)
  /\ loading' = FALSE
  /\ UNCHANGED <<filePath, params, requests, pathChanges>>
  /\ UNCHANGED appVars
  /\ last' = [op |-> "onError", arg |-> r]
  /\ UNCHANGED resolved
  /\ UNCHANGED inputVars

\* onError(error): the loader reports failure of the load of r.
onError(r) ==
  /\ BagIn(r, pending)
  /\ pending' = Deliver(pending, r)
  /\ error' = ErrorMessage(filePath)
  /\ UNCHANGED <<filePath, loading, params, requests, pathChanges>>
  /\ UNCHANGED appVars
  /\ last' = [op |-> "onError", arg |-> r]
  /\ UNCHANGED resolved
  /\ UNCHANGED inputVars

ngOnInitRepeated ==
  /\ topicsGet \in {"none", "done"}
  /\ topicsGet' = "pending"
  /\ httpGets' = httpGets + 1
  /\ UNCHANGED <<topics, modal>>
  /\ UNCHANGED viewerVars
  /\ last' = [op |-> "ngOnInit", arg |-> ""]
  /\ UNCHANGED resolved
  /\ UNCHANGED inputVars

\* ngOnInit(): this.http.get<Topic[]>('./topics.json').subscribe(...)
\* The framework calls the hook once.
ngOnInit ==
  /\ topicsGet = "none"
  /\ topicsGet' = "pending"
  /\ httpGets' = httpGets + 1
  /\ UNCHANGED <<topics, modal>>
  /\ UNCHANGED viewerVars
  /\ last' = [op |-> "ngOnInit", arg |-> ""]
  /\ UNCHANGED resolved
  /\ UNCHANGED inputVars

\* (data: Topic[]) => { this.topics.set(data); }
TopicsNext(data) ==
  /\ topicsGet = "pending"
  /\ topicsGet' = "done"
  /\ topics' = SetTopics(topics, data)
  /\ UNCHANGED <<httpGets, modal>>
  /\ UNCHANGED viewerVars
  /\ last' = [op |-> "topicsNext", arg |-> data]
  /\ UNCHANGED resolved
  /\ UNCHANGED inputVars

TopicsErrorShowsError ==
  /\ topicsGet = "pending"
  /\ topicsGet' = "failed"
  /\ UNCHANGED <<topics, httpGets, modal>>
  /\ error' = "Can't load ./topics.json"
  /\ UNCHANGED <<filePath, loading, params, pending, requests, pathChanges>>
  /\ last' = [op |-> "topicsError", arg |-> ""]
  /\ UNCHANGED resolved
  /\ UNCHANGED inputVars

\* The GET fails: subscribe() was given no error callback.
TopicsError ==
  /\ topicsGet = "pending"
  /\ topicsGet' = "failed"
  /\ UNCHANGED <<topics, httpGets, modal>>
  /\ UNCHANGED viewerVars
  /\ last' = [op |-> "topicsError", arg |-> ""]
  /\ UNCHANGED resolved
  /\ UNCHANGED inputVars

\* openTopicsModal(temp): this.modalService.open(temp, {...})
openTopicsModal(temp) ==
  /\ Len(modal) < MaxOpens
  /\ modal' = Append(modal, [temp |-> temp, options |-> ModalOptions])
  /\ UNCHANGED <<topics, topicsGet, httpGets>>
  /\ UNCHANGED viewerVars
  /\ last' = [op |-> "openTopicsModal", arg |-> temp]
  /\ UNCHANGED resolved
  /\ UNCHANGED inputVars

Navigate == \E title \in Titles : ParamsNext(title)
LoadOk == \E r \in BagToSet(pending) : onLoad(r)
LoadFail == \E r \in BagToSet(pending) : onError(r)
TopicsOk == \E data \in Responses : TopicsNext(data)
OpenModal == \E temp \in Templates : openTopicsModal(temp)

Next ==
  \/ Navigate
  \/ LoadOk
  \/ LoadFail
  \/ ngOnInit
  \/ TopicsOk
  \/ TopicsError
  \/ OpenModal

Spec == Init /\ [][Next]_vars

\* ------------------------------------------- actions of the input variant
mainVars == <<viewerVars, appVars, resolved>>

\* The parent binds a new value to the required input filePath; the display
\* layer hands it to the markdown loader.
InputChange(path) ==
  /\ path # inputFilePath
  /\ BagCardinality(inputPending) < MaxPending
  /\ inputFilePath' = path
  /\ inputPending' = Request(inputPending, path)
  /\ UNCHANGED <<inputLoading, inputError>>
  /\ UNCHANGED mainVars
  /\ last' = [op |-> "inputChange", arg |-> path]

\* Input variant, onLoad(content): this.loading.set(false)
inputOnLoad(r) ==
  /\ BagIn(r, inputPending)
  /\ inputPending' = Deliver(inputPending, r)
  /\ inputLoading' = FALSE
  /\ UNCHANGED <<inputFilePath, inputError>>
  /\ UNCHANGED mainVars
  /\ last' = [op |-> "inputOnLoad", arg |-> r]

\* Input variant, onError(error):
\* this.error.set(error.message ? error.message : error)
inputOnError(r, e) ==
  /\ BagIn(r, inputPending)
  /\ inputPending' = Deliver(inputPending, r)
  /\ inputError' = StoredError(e)
  /\ UNCHANGED <<inputFilePath, inputLoading>>
  /\ UNCHANGED mainVars
  /\ last' = [op |-> "inputOnError", arg |-> e]

InputBind == \E path \in InputPaths : InputChange(path)
InputLoadOk == \E r \in BagToSet(inputPending) : inputOnLoad(r)
InputLoadFail == \E r \in BagToSet(inputPending) : \E e \in ErrorValues : inputOnError(r, e)

InputNext ==
  \/ InputBind
  \/ InputLoadOk
  \/ InputLoadFail

InputSpec == Init /\ [][InputNext]_vars

TypeOK ==
  /\ loading \in BOOLEAN
  /\ params \in Titles \cup {""}
  /\ BagCardinality(pending) <= MaxPending
  /\ topicsGet \in {"none", "pending", "done", "failed"}
  /\ httpGets \in 0..1

\* ------------------------------------------------------------ load states
\* The three load states of the tracker, read off the two flags.
Loading == loading = TRUE
Errored == error # ""
Loaded == loading = FALSE /\ error = ""

\* TRUE iff sub occurs in s as a contiguous substring.
Contains(s, sub) ==
  \E i \in 1..(Len(s) - Len(sub) + 1) : SubSeq(s, i, i + Len(sub) - 1) = sub

\* A callback whose load was started for a path other than the stored one.
StaleCallback ==
  /\ last.op \in {"onLoad", "onError"}
  /\ last.arg # filePath \o ".md"

\* ------------------------------------------------------------------ claims
\* C1: right after a successful load callback the state is exactly "loaded":
\* the loading flag is false and the error message is empty, also when an
\* earlier failure callback had recorded a message.
C1_LoadedAfterOnLoad ==
  last.op = "onLoad" => (loading = FALSE /\ error = "")

\* C2: right after a failure callback the state is exactly "errored": the
\* error message is non-empty and the loading flag is false.
C2_ErroredAfterOnError ==
  last.op = "onError" => (error # "" /\ loading = FALSE)

\* C3: in every reachable state exactly one of loading / loaded / errored
\* holds.
C3_ExactlyOneState ==
  /\ Loading \/ Loaded \/ Errored
  /\ ~(Loading /\ Loaded)
  /\ ~(Loading /\ Errored)
  /\ ~(Loaded /\ Errored)

\* C4: right after a route-parameter change the tracker is back at "loading":
\* the loading flag is true and the error message is empty.
C4_LoadingAfterNavigation ==
  last.op = "params" => (loading = TRUE /\ error = "")

\* C5: the message a failure callback records contains the path whose load
\* failed, also when the identifier changed while that load was in flight.
C5_MessageNamesFailedPath ==
  last.op = "onError" => Contains(error, last.arg)

\* C6: a callback of a superseded load is applied as if it belonged to the
\* current document: a stale success clears the loading flag and a stale
\* failure records the message of the path stored now.
C6_StaleCallbackApplied ==
  StaleCallback =>
    /\ (last.op = "onLoad" => loading = FALSE)
    /\ (last.op = "onError" => error = "Can't find " \o filePath \o ".md")

\* C6 witness: the message names the current document "ab" after the failure
\* of the superseded load of "a", while the load of "ab" is still in flight.
C6_Witness ==
  /\ last.op = "onError"
  /\ last.arg = "./a.md"
  /\ params = "ab"
  /\ error = "Can't find ./ab.md"
  /\ BagIn("./ab.md", pending)

\* C7: once errored (message non-empty, loading flag false) the tracker stays
\* errored through every event but a route-parameter change, and a
\* route-parameter change ends the errored state.
C7_FailedUntilIdentifierChanges ==
  [][ (error # "" /\ loading = FALSE) =>
        IF last'.op = "params"
          THEN error' = ""
          ELSE (error' # "" /\ loading' = FALSE) ]_vars

\* C8: the path stored by a navigation to id is "./" followed by id, whatever
\* the state before, so every resolution of one id stores the same path.
C8_PathIsPrefixPlusId ==
  /\ (last.op = "params" => filePath = "./" \o last.arg)
  /\ \A t \in Titles : resolved[t] \subseteq {"./" \o t}

\* C8 witness: "intro" is resolved a second time, from another path and with
\* both flags changed since its first resolution.
C8_Witness ==
  /\ last.op = "params"
  /\ last.arg = "intro"
  /\ filePath = "./intro"
  /\ error = "Can't find ./intro.md"
  /\ loading = FALSE

\* C9: the load started for identifier id fetches "./" id ".md" ("./intro.md"
\* for "intro"), and a failure message names that path of the current
\* identifier.
C9_FetchPathAndMessage ==
  /\ (last.op = "params" => BagIn("./" \o last.arg \o ".md", pending))
  /\ (last.op = "params" /\ last.arg = "intro" => BagIn("./intro.md", pending))
  /\ (last.op = "onError" => Contains(error, "./" \o params \o ".md"))
  /\ (last.op = "onError" /\ ~StaleCallback => Contains(error, last.arg))

\* C9 witness: the load of "./intro.md" has failed and the message names it.
C9_Witness ==
  /\ last.op = "onError"
  /\ params = "intro"
  /\ last.arg = "./intro.md"
  /\ error = "Can't find ./intro.md"

\* C10: initialisation issues exactly one GET of the topics resource, and on
\* success the held list is exactly the delivered array.
C10_OneFetchReplacesList ==
  /\ (topicsGet = "none" => httpGets = 0 /\ topics = << >>)
  /\ (topicsGet # "none" => httpGets = 1)
  /\ (last.op = "topicsNext" => topics = last.arg)
  /\ (topicsGet = "done" => topics \in Responses)

\* C10 witness: a one-entry response has replaced the list.
C10_Witness ==
  /\ last.op = "topicsNext"
  /\ Len(last.arg) = 1
  /\ topics = last.arg
  /\ httpGets = 1

\* C11: a failed GET of the topics resource changes nothing: the list keeps
\* its initial empty value, the viewer's path and flags, the request count and
\* the modal calls are as before, and no error message appears.
C11_TopicsFailureChangesNothing ==
  [][ last'.op = "topicsError" =>
        /\ topics' = topics
        /\ topics' = << >>
        /\ UNCHANGED <<filePath, loading, error, httpGets, modal>> ]_vars

\* C11 witness: the GET has failed after a document was requested; the list
\* is empty and no error message is shown.
C11_Witness ==
  /\ last.op = "topicsError"
  /\ topics = << >>
  /\ params # ""
  /\ error = ""

\* C12: once the GET of the topics resource has succeeded, no event changes
\* the held list and no further GET is issued.
C12_TopicsImmutableAfterLoad ==
  [][ topicsGet = "done" =>
        /\ topics' = topics
        /\ httpGets' = httpGets
        /\ topicsGet' = "done" ]_vars

\* C12 witness: a two-entry list is held, and a modal has been opened and a
\* document load has failed since.
C12_Witness ==
  /\ topicsGet = "done"
  /\ Len(topics) = 2
  /\ Len(modal) > 0
  /\ last.op = "onError"

\* C13: a failure callback starts no load: the number of loads started equals
\* the number of changes of the stored path in every state, and a failure
\* callback changes nothing but the error message (and the loader's set of
\* loads in flight, which loses the failed one).
C13_NoRetry ==
  /\ [](requests = pathChanges)
  /\ [][ last'.op = "onError" =>
           /\ requests' = requests
           /\ BagCardinality(pending') = BagCardinality(pending) - 1
           /\ UNCHANGED <<filePath, loading, topics, topicsGet, httpGets, modal>> ]_vars

\* C13 witness: two loads were started for two path changes, the second has
\* failed and nothing is in flight.
C13_Witness ==
  /\ last.op = "onError"
  /\ requests = 2
  /\ pathChanges = 2
  /\ BagCardinality(pending) = 0

\* C14: the stored path is "./" followed by the latest route parameter, and
\* no field of the viewer holds the path of an earlier identifier.
C14_NoHistoryRetained ==
  /\ (params # "" => filePath = "./" \o params)
  /\ \A t \in Titles \ {params} :
       /\ filePath # "./" \o t
       /\ ~Contains(error, "./" \o t \o ".md")

\* C15: openTopicsModal(temp) calls open once, with temp and with the same
\* options as every other call (animation, scrollable and centered true, and
\* fullscreen or size given), and changes no other state.
C15_ModalOpenedOnceWithFixedFlags ==
  [][ last'.op = "openTopicsModal" =>
        /\ Len(modal') = Len(modal) + 1
        /\ SubSeq(modal', 1, Len(modal)) = modal
        /\ modal'[Len(modal')].temp = last'.arg
        /\ LET o == modal'[Len(modal')].options
           IN  /\ o.animation = TRUE
               /\ o.scrollable = TRUE
               /\ o.centered = TRUE
               /\ ("fullscreen" \in DOMAIN o \/ "size" \in DOMAIN o)
               /\ \A i \in 1..Len(modal') : modal'[i].options = o
        /\ UNCHANGED <<topics, topicsGet, httpGets>>
        /\ UNCHANGED <<filePath, loading, error, requests>> ]_vars

\* C15 witness: two calls with different templates, made while a list is held.
C15_Witness ==
  /\ last.op = "openTopicsModal"
  /\ Len(modal) = 2
  /\ modal[1].temp # modal[2].temp
  /\ Len(topics) > 0

\* C16: a route-parameter change changes the stored path and leaves the
\* loading flag and the error message (and the root component) as they were.
C16_NavigationKeepsFlags ==
  [][ last'.op = "params" =>
        /\ loading' = loading
        /\ error' = error
        /\ filePath' # filePath
        /\ UNCHANGED <<topics, topicsGet, httpGets, modal>> ]_vars

\* C16 witness: a navigation made with the loading flag false and a message
\* recorded.
C16_Witness ==
  /\ last.op = "params"
  /\ loading = FALSE
  /\ error # ""

\* C17: a failure callback leaves a non-empty message, and a non-empty message
\* stays non-empty in every later state.
C17_ErrorNeverCleared ==
  /\ [](last.op = "onError" => error # "")
  /\ [][ error # "" => error' # "" ]_vars

\* C17 witness: the current document has loaded, nothing is in flight, and the
\* message of an earlier failure is still there.
C17_Witness ==
  /\ last.op = "onLoad"
  /\ last.arg = filePath \o ".md"
  /\ BagCardinality(pending) = 0
  /\ error # ""

\* C18: the loading flag starts true, is false after a successful load
\* callback, changes in no other event, and once false stays false.
C18_LoadingMonotone ==
  /\ loading = TRUE
  /\ [][ /\ (last'.op = "onLoad" => loading' = FALSE)
         /\ (loading' # loading => last'.op = "onLoad")
         /\ (loading = FALSE => loading' = FALSE) ]_vars

\* C18 witness: after a navigation the load of the current document is in
\* flight while the loading flag is false.
C18_Witness ==
  /\ last.op = "params"
  /\ loading = FALSE
  /\ BagIn(filePath \o ".md", pending)
  /\ error = ""

\* C19: onLoad leaves the path and the error message unchanged, onError leaves
\* the path and the loading flag unchanged, and neither touches the root
\* component.
C19_CallbacksTouchOwnFlag ==
  [][ /\ (last'.op = "onLoad" =>
            filePath' = filePath /\ error' = error /\ UNCHANGED appVars)
      /\ (last'.op = "onError" =>
            filePath' = filePath /\ loading' = loading /\ UNCHANGED appVars) ]_vars

\* C19 witness: the first load has failed and the loading flag is still true.
C19_Witness ==
  /\ last.op = "onError"
  /\ requests = 1
  /\ loading = TRUE
  /\ error # ""

\* No route parameter has been delivered yet.
NoParamYet ==
  /\ params = ""
  /\ \A t \in Titles : resolved[t] = {}

\* C20: before the first route parameter the path is empty, the loading flag
\* true and the message empty; the topic list is empty until the GET of the
\* topics resource succeeds.
C20_InitialState ==
  /\ (NoParamYet => filePath = "" /\ loading = TRUE /\ error = "")
  /\ (topicsGet # "done" => topics = << >>)

\* C20 witness: no parameter yet, the GET is in flight and a modal was opened.
C20_Witness ==
  /\ NoParamYet
  /\ topicsGet = "pending"
  /\ Len(modal) = 1

\* C21: in the input-bound variant a failure callback stores the error's
\* message when the error has a truthy one and the error value itself
\* otherwise, and leaves the loading flag as it was; a success callback sets
\* the loading flag to false and leaves the error as it was.
C21_InputVariantCallbacks ==
  [][ /\ (last'.op = "inputOnError" =>
            /\ ( (last'.arg.msgType = "string" /\ last'.arg.msgVal # "")
                   => inputError' = [type |-> "string", val |-> last'.arg.msgVal,
                                     msgType |-> "undefined", msgVal |-> ""] )
            /\ ( ~(last'.arg.msgType = "string" /\ last'.arg.msgVal # "")
                   => inputError' = last'.arg )
            /\ inputLoading' = inputLoading)
      /\ (last'.op = "inputOnLoad" =>
            /\ inputLoading' = FALSE
            /\ inputError' = inputError) ]_vars

\* C21 witness: a load has failed with an error object whose message is empty;
\* the object itself is stored and the loading flag is still true.
C21_Witness ==
  /\ last.op = "inputOnError"
  /\ last.arg.type = "object"
  /\ last.arg.msgType = "string"
  /\ last.arg.msgVal = ""
  /\ inputError = last.arg
  /\ inputLoading = TRUE

====
